---- MODULE Spec2Model ----
(***************************************************************************)
(* Model of the retrieval-augmented generation core of root-agent:         *)
(* the retrieve -> generate graph (app/core/agent/rag_agent.py), the       *)
(* response streamer, the answer evaluator and the chat service entry      *)
(* points that drive them (app/services/chat_service.py), and of the       *)
(* ingestion run that fills the collections (app/utils/document_loader.py, *)
(* scripts/load_documents.py, app/db/qdrant.py).                           *)
(*                                                                         *)
(* Texts are sequences of lexical tokens: each token is one of the         *)
(* characters the regular expressions of the code look at, or a run of     *)
(* other characters.  Similarity scores are hundredths (0.70 is 70).       *)
(***************************************************************************)
EXTENDS Integers, Sequences, FiniteSets, TLC

VARIABLES
    pc,               \* position of the request being served
    entry,            \* entry point serving it: "chat", "test", "legacy", "analysis"
    agent_config,     \* the agent_config dict handed to get_agent_response
    state,            \* AgentState: messages, context, references
    collection_name,  \* retrieve_node's local collection_name
    searched,         \* points of the collection when retrieve_node searched it
    search_result,    \* retrieve_node's local search_result (hits with scores)
    retrieve_outcome, \* how retrieve_node's service calls ended ("ok" or the failing call)
    executed,         \* nodes of the graph run so far, in order
    response,         \* dict returned by get_agent_response / get_answer_analysis
    gen_request,      \* inputs generate_response handed to chain.invoke
    gen_failed,       \* whether the Generation Service call of this request failed
    chunks,           \* get_agent_response_stream's chunks not yet looked at
    frames,           \* SSE frames yielded so far
    raised,           \* exception that escaped to the caller ("none" if none)
    test_response     \* AgentTestResponse returned by test_agent_configuration

\* The ingestion run (app/utils/document_loader.py, scripts/load_documents.py).
VARIABLES
    load_pc,          \* position of the ingestion run
    load_collection,  \* load_pdf_directory's parameter collection_name
    load_raised,      \* exception that left load_pdf_directory ("none" if none)
    args,             \* the parsed command line of load_documents.py (None without one)
    use_ocr,          \* load_pdf_directory's parameter use_ocr
    recreate,         \* load_pdf_directory's parameter recreate
    pdf_files,        \* the PDF files of the directory, in listing order
    file_index,       \* position of the loop over pdf_files
    all_documents,    \* load_pdf_directory's all_documents
    page_num,         \* extract_text_with_ocr's page_num
    documents,        \* extract_text_with_ocr's documents
    ocr_log,          \* what rendering and recognising each page so far yielded
    doc_chunks,       \* load_pdf_directory's chunks
    batch_start,      \* load_pdf_directory's i, the offset of the batch
    store,            \* the collection of the vector store: exists, points
    before,           \* the collection as it was when the run started
    store_calls,      \* delete_collection / create_collection calls of the run
    embedded,         \* the calls of embed_documents: offset of the batch, texts
    written,          \* points the run upserted
    failed_call       \* the service call that failed the run (None if none)

ingest_vars == <<load_pc, load_collection, load_raised, args, use_ocr, recreate, pdf_files,
                 file_index, all_documents, page_num, documents, ocr_log, doc_chunks,
                 batch_start, store, before, store_calls, embedded, written, failed_call>>

VARIABLES
    agent             \* the row of table agents that the requests name

chat_vars == <<pc, entry, agent_config, state, collection_name, searched, search_result,
               retrieve_outcome, executed, response, gen_request, gen_failed, chunks, frames,
               raised, test_response>>

vars == <<chat_vars, ingest_vars, agent>>

---------------------------------------------------------------------------
\* Bounds of the model.

MaxPoints == 2        \* points in the searched collection
MaxAnswerLen == 3     \* tokens of a generated answer
MaxHistory == 1       \* history items of a request
MaxTextLen == 4       \* tokens of a generated analysis

\* Program constants.

ScoreThreshold == 70  \* score_threshold=0.7
SearchLimit == 10     \* limit=10
AnalysisTopK == 3     \* similarity_search(question, k=3)

---------------------------------------------------------------------------
\* Values.

None == "None"

NoMatchMarker == "No relevant information found in the documents."
NoContentMarker == "No readable content found in the documents."
ErrorMarker == "Error retrieving information from documents."
NoContextAvailable == "No context available."

\* "I'm sorry, I encountered an error while processing your question."
\* One run of ordinary characters ending with a full stop.
Apology == <<"sorry", ".">>

UserRoles == {"regular", "admin", "superadmin"}

Modules == {"module1", "module2"}

\* Token alphabet of generated answers: a run of ordinary characters, the
\* sentence end, the blank, the newline and the heading marker.
AnswerChars == {"w", ".", " ", "\n", "#"}

RECURSIVE SeqsUpTo(_, _)
SeqsUpTo(S, n) ==
    IF n = 0 THEN {<<>>}
    ELSE LET shorter == SeqsUpTo(S, n - 1)
         IN shorter \cup {Append(s, c) : s \in {t \in shorter : Len(t) = n - 1}, c \in S}

\* "Paris is the capital. # Next\nMore text."
ParisAnswer == <<"w", ".", " ", "#", " ", "w", "\n", "w", ".">>

Answers == SeqsUpTo(AnswerChars, MaxAnswerLen) \cup {ParisAnswer}

\* A stored point as the query sees it: its similarity to the query and
\* whether its payload carries "page_content".
Scores == {ScoreThreshold - 1, ScoreThreshold, ScoreThreshold + 20}
Points == [score : Scores, has_content : BOOLEAN]
Collections == UNION {[1..n -> Points] : n \in 0..MaxPoints}

PageContent(id) == "passage" \o ToString(id)

\* Token alphabet of generated analyses: the word "score" in two spellings,
\* the colon, the blank, digits, and "-" for any other character.
AnalysisChars == {"score", "Score", ":", " ", "-", "0", "1", "5"}

\* "score: 150" and "score: -20"
Score150Text == <<"score", ":", " ", "1", "5", "0">>
ScoreMinus20Text == <<"score", ":", " ", "-", "2", "0">>

AnalysisTexts == SeqsUpTo(AnalysisChars, MaxTextLen) \cup {Score150Text, ScoreMinus20Text}

\* "I'm sorry, I encountered an error while analyzing your answer."
AnalysisApology == <<"sorry, analyzing", ".">>

\* A history item is a dict with a 'content' key or a HistoryItem object.
HistoryItems == {[is_dict |-> TRUE, content |-> <<"earlier">>],
                 [is_dict |-> FALSE, content |-> <<"earlier">>]}
Histories == SeqsUpTo(HistoryItems, MaxHistory)

Question == <<"question">>

EmptyState == [messages |-> <<>>, context |-> <<>>, references |-> <<>>]
NoResponse == [answer |-> <<>>, references |-> <<>>, analysis |-> <<>>, score |-> 0]
NoTestResponse == [success |-> FALSE, error |-> None, response |-> <<>>]
NoConfig == [qdrant_collection |-> None, module |-> None]
NoRequest == [context |-> None, question |-> <<>>]
NoAgent == [exists |-> FALSE, id |-> None, qdrant_collection |-> None, is_active |-> FALSE]
NoArgs == [module |-> None, recreate |-> FALSE, no_ocr |-> FALSE]

---------------------------------------------------------------------------
\* app/db/qdrant.py

get_collection_name(module) == module \o "_docs"

\* client.search(collection_name, query_vector, limit, score_threshold):
\* the points scoring at least the threshold, best first, at most `limit`.
RECURSIVE BestFirst(_, _)
BestFirst(pts, ids) ==
    IF ids = {} THEN <<>>
    ELSE LET best == CHOOSE i \in ids : \A j \in ids :
                         \/ pts[i].score > pts[j].score
                         \/ pts[i].score = pts[j].score /\ i <= j
         IN <<best>> \o BestFirst(pts, ids \ {best})

Hit(pts, id) ==
    [id |-> id, score |-> pts[id].score,
     page_content |-> IF pts[id].has_content THEN PageContent(id) ELSE None]

Head_n(s, n) == SubSeq(s, 1, IF Len(s) < n THEN Len(s) ELSE n)

\* Mutant: the search call without score_threshold.
search_no_floor(pts, limit, score_threshold) ==
    LET top == Head_n(BestFirst(pts, DOMAIN pts), limit)
    IN [k \in 1..Len(top) |-> Hit(pts, top[k])]

search(pts, limit, score_threshold) ==
    LET ids == {i \in DOMAIN pts : pts[i].score >= score_threshold}
        top == Head_n(BestFirst(pts, ids), limit)
    IN [k \in 1..Len(top) |-> Hit(pts, top[k])]

---------------------------------------------------------------------------
\* app/core/agent/rag_agent.py: the graph's two nodes.

\* Lines 38-45.  The AgentState built by get_agent_response has no "module"
\* key, so state.get("module", "module1") is the default.
ResolveCollection(config) ==
    IF config.qdrant_collection # None
    THEN config.qdrant_collection
    ELSE get_collection_name("module1")

\* hit.payload["page_content"][:200] + "..." (passages here are short).
Excerpt(text) == text \o "..."

RECURSIVE Contexts(_)
Contexts(hits) ==
    IF hits = <<>> THEN <<>>
    ELSE IF Head(hits).page_content # None
         THEN <<Head(hits).page_content>> \o Contexts(Tail(hits))
         ELSE Contexts(Tail(hits))

\* The document name and page of a reference are copied from the payload's
\* metadata; the model names them by the point they come from.
RECURSIVE References(_)
References(hits) ==
    IF hits = <<>> THEN <<>>
    ELSE IF Head(hits).page_content # None
         THEN <<[text |-> Excerpt(Head(hits).page_content), point |-> Head(hits).id]>>
              \o References(Tail(hits))
         ELSE References(Tail(hits))

RetrieveFailures == {"init_vector_store", "embed_query", "search"}

\* Mutant: the except branch logs the error and sets no marker.
RetrieveError_no_marker(st) == st

\* Lines 92-95: the except branch.
RetrieveError(st) ==
    [st EXCEPT !.context = <<ErrorMarker>>, !.references = <<>>]

\* Mutant: an empty result leaves the context empty.
RetrieveNoMatch_empty_context(st) ==
    [st EXCEPT !.context = <<>>, !.references = <<>>]

\* Lines 68-71: no hit.
RetrieveNoMatch(st) ==
    [st EXCEPT !.context = <<NoMatchMarker>>, !.references = <<>>]

\* Lines 72-91: the hits' contents and references.
RetrieveHits(st, hits) ==
    [st EXCEPT !.context = IF Contexts(hits) # <<>>
                           THEN Contexts(hits)
                           ELSE <<NoContentMarker>>,
               !.references = References(hits)]

\* retrieve_node: the state it returns and its local search_result, given
\* how the calls to the services end and the points of the collection.
retrieve_node(st, outcome, pts) ==
    IF outcome \in RetrieveFailures
    THEN [state |-> RetrieveError(st), search_result |-> <<>>]
    ELSE LET hits == search(pts, SearchLimit, ScoreThreshold)
         IN IF hits = <<>>
            THEN [state |-> RetrieveNoMatch(st), search_result |-> hits]
            ELSE [state |-> RetrieveHits(st, hits), search_result |-> hits]

\* "\n\n".join(state["context"]) if state["context"] else "No context available."
RECURSIVE Join(_)
Join(ctx) ==
    IF ctx = <<>> THEN ""
    ELSE IF Len(ctx) = 1 THEN ctx[1]
    ELSE ctx[1] \o "\n\n" \o Join(Tail(ctx))

JoinContext(ctx) == IF ctx = <<>> THEN NoContextAvailable ELSE Join(ctx)

\* The inputs generate_response hands to chain.invoke.
GenerationInputs(st) ==
    [context |-> JoinContext(st.context), question |-> st.messages[Len(st.messages)]]

\* get_agent_response, lines 181-201: the initial AgentState.
ItemText(item) ==
    IF item.is_dict THEN item.content ELSE <<"content=">> \o item.content

InitialState(question, history) ==
    [messages |-> [k \in 1..Len(history) |-> ItemText(history[k])] \o <<question>>,
     context |-> <<>>,
     references |-> <<>>]

\* get_agent_response, lines 203-218: what it returns.
PipelineResult(st) ==
    [NoResponse EXCEPT !.answer = st.messages[Len(st.messages)],
                       !.references = st.references]

\* Mutant: the except branch returns the references retrieved so far.
PipelineFailure_keeps_references(st) ==
    [NoResponse EXCEPT !.answer = Apology, !.references = st.references]

PipelineFailure(st) ==
    [NoResponse EXCEPT !.answer = Apology, !.references = <<>>]

\* create_agent: the graph.
EntryPoint == "retrieve"
FinishPoint == "generate"
\* Mutant: the finish point set on the retrieve node.
NextNode_finish_at_retrieve(node) ==
    IF node = "retrieve" THEN "returned" ELSE "returned"

NextNode(node) ==
    IF node = FinishPoint THEN "returned"
    ELSE IF node = "retrieve" THEN "generate"
    ELSE "returned"

---------------------------------------------------------------------------
\* get_agent_response_stream, lines 240-256: the segments of the answer.

IsSpace(c) == c \in {" ", "\n"}
IsSentenceEnd(c) == c \in {".", "!", "?"}

RECURSIVE SpaceRun(_, _)
SpaceRun(t, i) ==
    IF i <= Len(t) /\ IsSpace(t[i]) THEN 1 + SpaceRun(t, i + 1) ELSE 0

RECURSIVE HashRun(_, _)
HashRun(t, i) ==
    IF i <= Len(t) /\ t[i] = "#" THEN 1 + HashRun(t, i + 1) ELSE 0

\* Length of the match of (?<=[.!?])\s+|\n(?=#+\s+) at position i, 0 if none.
MatchLen(t, i) ==
    IF i > 1 /\ IsSentenceEnd(t[i - 1]) /\ IsSpace(t[i])
    THEN SpaceRun(t, i)
    ELSE IF /\ t[i] = "\n"
            /\ HashRun(t, i + 1) > 0
            /\ i + 1 + HashRun(t, i + 1) <= Len(t)
            /\ IsSpace(t[i + 1 + HashRun(t, i + 1)])
         THEN 1
         ELSE 0

RECURSIVE SplitFrom(_, _, _)
SplitFrom(t, start, i) ==
    IF i > Len(t) THEN <<SubSeq(t, start, Len(t))>>
    ELSE IF MatchLen(t, i) > 0
         THEN <<SubSeq(t, start, i - 1)>>
              \o SplitFrom(t, i + MatchLen(t, i), i + MatchLen(t, i))
         ELSE SplitFrom(t, start, i + 1)

re_split(t) == SplitFrom(t, 1, 1)

\* A streamer that does not test the chunks.
NonBlank_always(chunk) == TRUE
\* chunk.strip() is non-empty.
NonBlank(chunk) == \E k \in DOMAIN chunk : ~IsSpace(chunk[k])

ContentFrame(text) == [event |-> "content", content |-> text, score |-> 0]
ScoreFrame(n) == [event |-> "score", content |-> <<>>, score |-> n]
\* Mutant: the last frame sent as one more content event.
DoneFrame_as_content == [event |-> "content", content |-> <<>>, score |-> 0]
DoneFrame == [event |-> "done", content |-> <<>>, score |-> 0]

---------------------------------------------------------------------------
\* app/services/agent_service.py

\* AgentService.get_agent_by_id: whether the agent is returned.
get_agent_by_id(exists, is_active, user_role) ==
    IF ~exists THEN FALSE
    ELSE IF user_role \notin {"admin", "superadmin"} /\ ~is_active THEN FALSE
    ELSE TRUE

\* ChatService.prepare_agent_config
prepare_agent_config(qdrant_collection) ==
    [qdrant_collection |-> qdrant_collection, module |-> None]

AgentCollections == {None, "kb_docs"}

---------------------------------------------------------------------------
\* The requests.

\* No request is being served.
ChatIdle ==
    /\ pc = "idle"
    /\ collection_name = None
    /\ raised = "none"
    /\ entry = None
    /\ agent_config = NoConfig
    /\ state = EmptyState
    /\ searched = <<>>
    /\ search_result = <<>>
    /\ retrieve_outcome = None
    /\ executed = <<>>
    /\ response = NoResponse
    /\ gen_request = NoRequest
    /\ gen_failed = FALSE
    /\ chunks = <<>>
    /\ frames = <<>>
    /\ test_response = NoTestResponse

\* No ingestion run has started.
IngestIdle ==
    /\ load_pc = "idle"
    /\ load_collection = None
    /\ load_raised = "none"
    /\ args = NoArgs
    /\ use_ocr = TRUE
    /\ recreate = FALSE
    /\ pdf_files = <<>>
    /\ file_index = 0
    /\ all_documents = <<>>
    /\ page_num = 0
    /\ documents = <<>>
    /\ ocr_log = <<>>
    /\ doc_chunks = <<>>
    /\ batch_start = 0
    /\ store = [exists |-> FALSE, points |-> {}]
    /\ before = [exists |-> FALSE, points |-> {}]
    /\ store_calls = <<>>
    /\ embedded = {}
    /\ written = {}
    /\ failed_call = None

Init ==
    /\ ChatIdle
    /\ IngestIdle
    /\ agent = NoAgent

\* get_agent_response up to chain.invoke(state).
EnterPipeline(e, config, history) ==
    /\ entry' = e
    /\ agent_config' = config
    /\ state' = InitialState(Question, history)
    /\ pc' = EntryPoint
    /\ UNCHANGED <<agent, ingest_vars, collection_name, searched, search_result, retrieve_outcome,
                   executed,
                   response, gen_request, gen_failed, chunks, frames, raised,
                   test_response>>

\* ChatService.chat_with_agent, called by POST /chat for an admin or superadmin.
ChatRequest(exists, is_active, role, coll, history) ==
    /\ pc = "idle"
    /\    IF get_agent_by_id(exists, is_active, role)
          THEN EnterPipeline("chat", prepare_agent_config(coll), history)
          ELSE /\ entry' = "chat"
               /\ raised' = "HTTPException"
               /\ pc' = "rejected"
               /\ UNCHANGED <<agent, ingest_vars, agent_config, state, collection_name, searched,
                              search_result,
                              retrieve_outcome, executed, response, gen_request,
                              gen_failed, chunks, frames, test_response>>

\* A chat request for an agent row of any content.
ChatWithAgent ==
    \E exists \in BOOLEAN, is_active \in BOOLEAN, role \in {"admin", "superadmin"},
       coll \in AgentCollections, history \in Histories :
       ChatRequest(exists, is_active, role, coll, history)

\* ChatService.test_agent_configuration up to the pipeline.
TestRequest(exists, is_active, coll, history) ==
    /\ pc = "idle"
    /\    IF get_agent_by_id(exists, is_active, None)
          THEN EnterPipeline("test", prepare_agent_config(coll), history)
          ELSE /\ entry' = "test"
               /\ test_response' = [success |-> FALSE, error |-> "404: Agent not found",
                                    response |-> <<>>]
               /\ pc' = "rejected"
               /\ UNCHANGED <<agent, ingest_vars, agent_config, state, collection_name, searched,
                              search_result,
                              retrieve_outcome, executed, response, gen_request,
                              gen_failed, chunks, frames, raised>>

\* A test request for an agent row of any content.
TestAgentConfiguration ==
    \E exists \in BOOLEAN, is_active \in BOOLEAN,
       coll \in AgentCollections, history \in Histories :
       TestRequest(exists, is_active, coll, history)

\* get_qdrant_response_stream up to the pipeline.
LegacyStream ==
    /\ pc = "idle"
    /\ \E module \in Modules, history \in Histories :
          EnterPipeline("legacy", [qdrant_collection |-> None, module |-> module], history)

\* The graph moves on from `node` with state `st`; at the finish point
\* chain.invoke returns and get_agent_response returns its dict.
Advance(node, st) ==
    IF NextNode(node) = "returned"
    THEN /\ response' = PipelineResult(st)
         /\ state' = EmptyState
         /\ pc' = "returned"
    ELSE /\ state' = st
         /\ pc' = NextNode(node)
         /\ UNCHANGED response

RetrieveStep(outcomes, views) ==
    /\ pc = "retrieve"
    /\ \E outcome \in outcomes, pts \in views :
          /\ retrieve_outcome' = outcome
          /\ searched' = IF outcome = "ok" THEN pts ELSE <<>>
          /\ search_result' = retrieve_node(state, outcome, pts).search_result
          /\ Advance("retrieve", retrieve_node(state, outcome, pts).state)
    /\ collection_name' = ResolveCollection(agent_config)
    /\ executed' = Append(executed, "retrieve")
    /\ UNCHANGED <<agent, ingest_vars, entry, agent_config, gen_request, gen_failed, chunks, frames,
                   raised, test_response>>

\* retrieve_node against a vector store of any content and reach.
RetrieveNode == RetrieveStep(RetrieveFailures \cup {"ok"}, Collections)

GenerateStep(answers) ==
    /\ pc = "generate"
    /\ gen_request' = GenerationInputs(state)
    /\ executed' = Append(executed, "generate")
    /\ \/ \E answer \in answers :
             /\ gen_failed' = FALSE
             /\ Advance("generate", [state EXCEPT !.messages = Append(@, answer)])
       \/ /\ gen_failed' = TRUE
          /\ response' = PipelineFailure(state)
          /\ state' = EmptyState
          /\ pc' = "returned"
    /\ searched' = <<>>
    /\ UNCHANGED <<agent, ingest_vars, entry, agent_config, collection_name, search_result,
                   retrieve_outcome, chunks, frames, raised, test_response>>

\* generate_response with a language model of any answer.
GenerateResponse == GenerateStep(Answers)

\* get_agent_response_stream: re.split of the answer.
StartStream ==
    /\ pc = "returned"
    /\ chunks' = re_split(response.answer)
    /\ pc' = "stream"
    /\ collection_name' = None
    /\ search_result' = <<>>
    /\ gen_request' = NoRequest
    /\ UNCHANGED <<agent, ingest_vars, entry, agent_config, state, searched, retrieve_outcome, executed,
                   response, gen_failed, frames, raised, test_response>>

\* One iteration of the loop over the chunks.
EmitChunk ==
    /\ pc = "stream"
    /\ chunks # <<>>
    /\ frames' = IF NonBlank(Head(chunks))
                 THEN Append(frames, ContentFrame(Append(Head(chunks), " ")))
                 ELSE frames
    /\ chunks' = Tail(chunks)
    /\ UNCHANGED <<agent, ingest_vars, pc, entry, agent_config, state, collection_name, searched,
                   search_result,
                   retrieve_outcome, executed, response, gen_request, gen_failed,
                   raised, test_response>>

\* The done event; test_agent_configuration then returns its response.
EmitDone ==
    /\ pc = "stream"
    /\ chunks = <<>>
    /\ frames' = Append(frames, DoneFrame)
    /\ pc' = "done"
    /\ test_response' = IF entry = "test"
                        THEN [success |-> TRUE, error |-> None,
                              response |-> Append(frames, DoneFrame)]
                        ELSE test_response
    /\ UNCHANGED <<agent, ingest_vars, entry, agent_config, state, collection_name, searched,
                   search_result,
                   retrieve_outcome, executed, response, gen_request, gen_failed,
                   chunks, raised>>

Next ==
    \/ ChatWithAgent
    \/ TestAgentConfiguration
    \/ LegacyStream
    \/ RetrieveNode
    \/ GenerateResponse
    \/ StartStream
    \/ EmitChunk
    \/ EmitDone

Spec == Init /\ [][Next]_vars

---------------------------------------------------------------------------
\* get_answer_analysis, lines 337-349: the score of a generated analysis.

\* "score" under re.IGNORECASE
IsScoreWord(c) == c \in {"score", "Score", "SCORE"}
\* [:\s]
IsSeparator(c) == c = ":" \/ IsSpace(c)
\* \d
Digits == {"0", "1", "2", "3", "4", "5", "6", "7", "8", "9"}
IsDigit(c) == c \in Digits
DigitValue(c) ==
    CASE c = "0" -> 0 [] c = "1" -> 1 [] c = "2" -> 2 [] c = "3" -> 3 [] c = "4" -> 4
      [] c = "5" -> 5 [] c = "6" -> 6 [] c = "7" -> 7 [] c = "8" -> 8 [] c = "9" -> 9

RECURSIVE SeparatorRun(_, _)
SeparatorRun(t, i) ==
    IF i <= Len(t) /\ IsSeparator(t[i]) THEN 1 + SeparatorRun(t, i + 1) ELSE 0

RECURSIVE DigitRun(_, _)
DigitRun(t, i) ==
    IF i <= Len(t) /\ IsDigit(t[i]) THEN 1 + DigitRun(t, i + 1) ELSE 0

\* Where group 1 starts if score[:\s]*(\d+) matches at position i, else 0.
GroupStart(t, i) ==
    IF IsScoreWord(t[i]) /\ DigitRun(t, i + 1 + SeparatorRun(t, i + 1)) > 0
    THEN i + 1 + SeparatorRun(t, i + 1)
    ELSE 0

\* re.search: the leftmost match; 0 if there is none.
RECURSIVE SearchFrom(_, _)
SearchFrom(t, i) ==
    IF i > Len(t) THEN 0
    ELSE IF GroupStart(t, i) > 0 THEN GroupStart(t, i)
    ELSE SearchFrom(t, i + 1)

\* Mutant: the last match instead of the first.
RECURSIVE SearchBack(_, _)
SearchBack(t, i) ==
    IF i < 1 THEN 0
    ELSE IF GroupStart(t, i) > 0 THEN GroupStart(t, i)
    ELSE SearchBack(t, i - 1)

re_search_last(t) == SearchBack(t, Len(t))

re_search(t) == SearchFrom(t, 1)

\* int() of the digits t[from .. from + n - 1]
RECURSIVE ParseInt(_, _, _)
ParseInt(t, from, n) ==
    IF n = 0 THEN 0
    ELSE 10 * ParseInt(t, from, n - 1) + DigitValue(t[from + n - 1])

\* Mutant: the upper clamp forgotten.
Clamp_no_upper(score) ==
    IF score < 0 THEN 0 ELSE score

Clamp(score) ==
    IF score < 0 THEN 0
    ELSE IF score > 100 THEN 100
    ELSE score

extract_score(content) ==
    IF re_search(content) = 0 THEN 0
    ELSE Clamp(ParseInt(content, re_search(content),
                        DigitRun(content, re_search(content))))

\* vector_store.similarity_search(question, k): the k best points, no floor.
similarity_search(pts, k) ==
    LET top == Head_n(BestFirst(pts, DOMAIN pts), k)
    IN [i \in 1..Len(top) |-> Hit(pts, top[i])]

AnalysisFailures == {"init_vector_store", "similarity_search"}

---------------------------------------------------------------------------
\* The answer evaluator's request: get_streaming_analysis.

\* get_streaming_analysis is entered and calls get_answer_analysis.
AnalyzeAnswer ==
    /\ pc = "idle"
    /\ entry' = "analysis"
    /\ \E module \in Modules : collection_name' = get_collection_name(module)
    /\ pc' = "analysis_retrieve"
    /\ UNCHANGED <<agent, ingest_vars, agent_config, state, searched, search_result, retrieve_outcome,
                   executed,
                   response, gen_request, gen_failed, chunks, frames, raised,
                   test_response>>

\* Lines 299-304, outside the try block: a failure leaves the generator.
\* A document without page content cannot be joined and fails the same way.
AnalysisRetrieve ==
    /\ pc = "analysis_retrieve"
    /\ \E outcome \in AnalysisFailures \cup {"ok"}, pts \in Collections :
          LET docs == similarity_search(pts, AnalysisTopK)
              failed == \/ outcome \in AnalysisFailures
                        \/ \E k \in DOMAIN docs : docs[k].page_content = None
          IN /\ retrieve_outcome' = IF failed /\ outcome = "ok" THEN "join" ELSE outcome
             /\ IF failed
                THEN /\ raised' = "Exception"
                     /\ pc' = "failed"
                     /\ UNCHANGED <<search_result, state>>
                ELSE /\ search_result' = docs
                     /\ state' = [state EXCEPT !.context = <<Join(Contexts(docs))>>]
                     /\ pc' = "analysis_generate"
                     /\ UNCHANGED raised
    /\ UNCHANGED <<agent, ingest_vars, entry, agent_config, collection_name, searched, executed,
                   response,
                   gen_request, gen_failed, chunks, frames, test_response>>

\* Lines 329-360: the generation call and the score; the locals are gone
\* when get_answer_analysis returns.
AnalysisGenerate ==
    /\ pc = "analysis_generate"
    /\ \/ \E content \in AnalysisTexts :
             /\ gen_failed' = FALSE
             /\ response' = [NoResponse EXCEPT !.analysis = content,
                                               !.score = extract_score(content)]
       \/ /\ gen_failed' = TRUE
          /\ response' = [NoResponse EXCEPT !.analysis = AnalysisApology, !.score = 0]
    /\ pc' = "analysis_returned"
    /\ state' = EmptyState
    /\ search_result' = <<>>
    /\ collection_name' = None
    /\ UNCHANGED <<agent, ingest_vars, entry, agent_config, searched, retrieve_outcome, executed,
                   gen_request, chunks, frames, raised, test_response>>

\* Lines 378-387: the three events.
AnalysisEmitContent ==
    /\ pc = "analysis_returned"
    /\ frames' = Append(frames, ContentFrame(response.analysis))
    /\ pc' = "analysis_score"
    /\ UNCHANGED <<agent, ingest_vars, entry, agent_config, state, collection_name, searched,
                   search_result,
                   retrieve_outcome, executed, response, gen_request, gen_failed,
                   chunks, raised, test_response>>

AnalysisEmitScore ==
    /\ pc = "analysis_score"
    /\ frames' = Append(frames, ScoreFrame(response.score))
    /\ pc' = "analysis_done"
    /\ UNCHANGED <<agent, ingest_vars, entry, agent_config, state, collection_name, searched,
                   search_result,
                   retrieve_outcome, executed, response, gen_request, gen_failed,
                   chunks, raised, test_response>>

AnalysisEmitDone ==
    /\ pc = "analysis_done"
    /\ frames' = Append(frames, DoneFrame)
    /\ pc' = "done"
    /\ UNCHANGED <<agent, ingest_vars, entry, agent_config, state, collection_name, searched,
                   search_result,
                   retrieve_outcome, executed, response, gen_request, gen_failed,
                   chunks, raised, test_response>>

NextAnalysis ==
    \/ AnalyzeAnswer
    \/ AnalysisRetrieve
    \/ AnalysisGenerate
    \/ AnalysisEmitContent
    \/ AnalysisEmitScore
    \/ AnalysisEmitDone

SpecAnalysis == Init /\ [][NextAnalysis]_vars

---------------------------------------------------------------------------
\* Agent administration: app/services/agent_service.py and
\* scripts/create_default_agents.py (SpecAgents).  The model follows the
\* row of one agent; the requests name that agent.

\* Collections of the vector store, and the module identifiers their
\* names are built from.
ModuleIds == {"kb", "module1"}
VectorCollections == {"kb_docs", "module1_docs", "scratch"}

\* qdrant.py, get_collections: for every name ending in "_docs", the name
\* without the suffix as id, and the name as collection.
EndsWithDocs(name) == \E m \in ModuleIds : m \o "_docs" = name
WithoutSuffix(name) == CHOOSE m \in ModuleIds : m \o "_docs" = name
get_collections(names) ==
    {[id |-> WithoutSuffix(name), collection |-> name] :
        name \in {n \in names : EndsWithDocs(n)}}

\* create_default_agents.py, line 80; the identifiers here are lower-case
\* and have neither blank nor dash.
AgentId(collection_id) == "agent_" \o collection_id

\* create_agent_from_collection: the row after the call.
create_agent_from_collection(row, collection_info) ==
    IF row.exists
    THEN row
    ELSE [exists |-> TRUE,
          id |-> AgentId(collection_info.id),
          qdrant_collection |-> collection_info.id,
          is_active |-> TRUE]

\* create_default_agents.py, main, lines 230-240, for one collection.
CreateDefaultAgents ==
    /\ pc = "idle"
    /\ \E collection \in get_collections(VectorCollections) :
          /\ agent.exists => agent.id = AgentId(collection.id)
          /\ agent' = create_agent_from_collection(agent, collection)
    /\ UNCHANGED <<chat_vars, ingest_vars>>

\* AgentService.create_agent, by an administrator.
CreateAgent ==
    /\ pc = "idle"
    /\ ~agent.exists
    /\ \E coll \in AgentCollections, is_active \in BOOLEAN :
          agent' = [exists |-> TRUE, id |-> "helper", qdrant_collection |-> coll,
                    is_active |-> is_active]
    /\ UNCHANGED <<chat_vars, ingest_vars>>

\* AgentService.update_agent with an update that carries is_active.
UpdateAgent ==
    /\ pc = "idle"
    /\ agent.exists
    /\ \E is_active \in BOOLEAN : agent' = [agent EXCEPT !.is_active = is_active]
    /\ UNCHANGED <<chat_vars, ingest_vars>>

\* AgentService.delete_agent: the row after the call.
delete_agent(row, soft_delete) ==
    IF soft_delete THEN [row EXCEPT !.is_active = FALSE] ELSE NoAgent

DeleteAgent ==
    /\ pc = "idle"
    /\ agent.exists
    /\ \E soft_delete \in BOOLEAN : agent' = delete_agent(agent, soft_delete)
    /\ UNCHANGED <<chat_vars, ingest_vars>>

\* AgentService.bulk_update_agents with the agent among agent_ids.
BulkOperations == {"activate", "deactivate", "delete"}
BulkUpdateAgents ==
    /\ pc = "idle"
    /\ agent.exists
    /\ \E operation \in BulkOperations :
          agent' = IF operation = "activate" THEN [agent EXCEPT !.is_active = TRUE]
                   ELSE IF operation = "deactivate" THEN [agent EXCEPT !.is_active = FALSE]
                   ELSE delete_agent(agent, TRUE)
    /\ UNCHANGED <<chat_vars, ingest_vars>>

\* POST /chat (endpoints/chat.py, require_admin_access) for the agent.
ChatWithStoredAgent ==
    \E role \in {"admin", "superadmin"} :
       ChatRequest(agent.exists, agent.is_active, role, agent.qdrant_collection, <<>>)

\* ChatService.test_agent_configuration for the agent.
TestStoredAgent ==
    TestRequest(agent.exists, agent.is_active, agent.qdrant_collection, <<>>)

\* The pipeline of these requests: the search fails or sees one passage,
\* the language model gives a two-sentence answer or fails.
RetrieveForAgent == RetrieveStep({"search", "ok"}, {pts \in Collections : Len(pts) = 1})
GenerateForAgent == GenerateStep({<<"w", ".", " ", "w", ".">>})

\* The request is over; the service takes the next one.
ServeNext ==
    /\ pc \in {"done", "rejected"}
    /\ pc' = "idle"
    /\ collection_name' = None
    /\ raised' = "none"
    /\ entry' = None
    /\ agent_config' = NoConfig
    /\ state' = EmptyState
    /\ searched' = <<>>
    /\ search_result' = <<>>
    /\ retrieve_outcome' = None
    /\ executed' = <<>>
    /\ response' = NoResponse
    /\ gen_request' = NoRequest
    /\ gen_failed' = FALSE
    /\ chunks' = <<>>
    /\ frames' = <<>>
    /\ test_response' = NoTestResponse
    /\ UNCHANGED <<agent, ingest_vars>>

NextAgents ==
    \/ CreateDefaultAgents
    \/ CreateAgent
    \/ UpdateAgent
    \/ DeleteAgent
    \/ BulkUpdateAgents
    \/ ChatWithStoredAgent
    \/ TestStoredAgent
    \/ RetrieveForAgent
    \/ GenerateForAgent
    \/ StartStream
    \/ EmitChunk
    \/ EmitDone
    \/ ServeNext

SpecAgents == Init /\ [][NextAgents]_vars

---------------------------------------------------------------------------
\* Ingestion: app/utils/document_loader.py and scripts/load_documents.py.
\*
\* A PDF file is a record: `readable` tells whether pypdf can read it to
\* the end, `pages` gives for every page the number of characters
\* page.extract_text() returns.  What rendering and recognising a page
\* yields is the environment's choice when the page is processed.  A
\* passage (LangchainDocument) is its metadata and the length of its text.

MaxPages == 5         \* pages of a PDF whose page texts are enumerated
LongPdfPages == 10    \* pages of the longer sample PDFs
MaxOcrPages == 102    \* pages of a scanned PDF
MaxVariedPages == 1   \* leading pages whose OCR outcome is enumerated
MaxDocs == 2          \* PDF files of a directory
MaxSegments == 3      \* runs of equal chunks in a list of chunks

MinPageChars == 50        \* shortest page text that is kept
SufficientChars == 100    \* a page with more characters counts as text
SufficientPercent == 25   \* share of such pages that makes a PDF textual
OcrSafetyLimit == 100     \* page number of the OCR safety limit
batch_size == 100         \* chunks per batch

PageLengths == {0, MinPageChars - 1, MinPageChars, SufficientChars, SufficientChars + 1}

\* PDFs with every combination of page texts.
TextPdfs == {[readable |-> TRUE, pages |-> s] : s \in SeqsUpTo(PageLengths, MaxPages)}

\* Longer PDFs: one page of text, all other pages alike.
LongPdfs ==
    {[readable |-> TRUE,
      pages |-> [p \in 1..LongPdfPages |-> IF p = 1 THEN SufficientChars + 1 ELSE n]] :
        n \in PageLengths}

\* Scanned PDFs: no page has extractable text.
ScannedPdfs == {[readable |-> TRUE, pages |-> [p \in 1..n |-> 0]] : n \in 0..MaxOcrPages}

\* PDFs pypdf fails on, after the pages it could still read.
DamagedPdfs == {[readable |-> FALSE, pages |-> s] : s \in SeqsUpTo({SufficientChars + 1}, 1)}

Pdfs == TextPdfs \cup LongPdfs \cup ScannedPdfs \cup DamagedPdfs

\* The directories of a whole run: a few one-page PDFs of every kind.
SamplePdfs ==
    {[readable |-> r, pages |-> <<n>>] : r \in BOOLEAN, n \in {0, SufficientChars + 1}}
Directories == SeqsUpTo(SamplePdfs, MaxDocs)

Passage(source, page, length, method) ==
    [source |-> source, page |-> page, length |-> length, extraction_method |-> method]

\* Lines 165-179: the pages with at least MinPageChars characters, in page
\* order, as passages.
KeptPages(pages, source, method) ==
    LET kept == {p \in DOMAIN pages : ~(pages[p] = 0 \/ pages[p] < MinPageChars)}
        nth(k) == CHOOSE p \in kept : Cardinality({q \in kept : q <= p}) = k
    IN [k \in 1..Cardinality(kept) |-> Passage(source, nth(k), pages[nth(k)], method)]

\* The pages read before a failure are kept.
extract_text_with_pypdf_keeps_partial(pdf, source) ==
    KeptPages(pdf.pages, source, "standard")
\* extract_text_with_pypdf, lines 150-184.
extract_text_with_pypdf(pdf, source) ==
    IF pdf.readable
    THEN KeptPages(pdf.pages, source, "standard")
    ELSE <<>>

\* has_sufficient_text, lines 266-283; max(1, total_pages * 0.25) in integers.
PagesWithText(docs) == Cardinality({k \in DOMAIN docs : docs[k].length > SufficientChars})
has_sufficient_text(docs) ==
    IF docs = <<>> THEN FALSE
    ELSE /\ PagesWithText(docs) >= 1
         /\ PagesWithText(docs) * 100 >= Len(docs) * SufficientPercent

\* What convert_from_path and image_to_string may yield for page p: an
\* exception, no image, or a text of some length.
PageError == [kind |-> "error", length |-> 0]
NoImages == [kind |-> "no_images", length |-> 0]
PageText(n) == [kind |-> "text", length |-> n]
VariedPages == 1..MaxVariedPages
OcrOutcomes(p) ==
    IF p \in VariedPages
    THEN {PageError, NoImages, PageText(MinPageChars - 1), PageText(MinPageChars)}
    ELSE IF p >= OcrSafetyLimit
         THEN {PageError, PageText(SufficientChars + 1)}
         ELSE {PageText(SufficientChars + 1)}

\* A page's exception ends the document whatever the page.
\* A filter that only drops the pages without any text.
InsufficientText_empty_only(length) == length = 0
\* Line 238: `if not text or len(text) < 50`.
InsufficientText(length) == length = 0 \/ length < MinPageChars

AfterPageError_stops(p) == "ocr_return"
\* extract_text_with_ocr, lines 254-259: what follows a page's exception.
AfterPageError(p) == IF p > OcrSafetyLimit THEN "ocr_return" ELSE "ocr"

\* load_pdf_directory, lines 53-72: one PDF file of the loop, up to the
\* point where its standard extraction is accepted, or OCR takes over
\* (lines 196-208 of extract_text_with_ocr), or the file is skipped.
ExtractPdf ==
    /\ load_pc = "extract"
    /\ file_index <= Len(pdf_files)
    /\ LET pdf == pdf_files[file_index]
           regular_documents == extract_text_with_pypdf(pdf, file_index)
       IN IF regular_documents # <<>> /\ has_sufficient_text(regular_documents)
          THEN /\ all_documents' = all_documents \o regular_documents
               /\ file_index' = file_index + 1
               /\ UNCHANGED load_pc
          ELSE IF use_ocr
               THEN /\ load_pc' = IF pdf.readable THEN "ocr" ELSE "ocr_return"
                    /\ UNCHANGED <<all_documents, file_index>>
               ELSE /\ file_index' = file_index + 1
                    /\ UNCHANGED <<load_pc, all_documents>>
    /\ page_num' = 0
    /\ documents' = <<>>
    /\ ocr_log' = <<>>
    /\ UNCHANGED <<agent, chat_vars, load_collection, load_raised, args, use_ocr, recreate,
                   pdf_files, doc_chunks, batch_start, store, before, store_calls, embedded,
                   written, failed_call>>

\* extract_text_with_ocr, lines 210-259: one iteration of the page loop.
OcrPage ==
    /\ load_pc = "ocr"
    /\ page_num' = page_num + 1
    /\ IF page_num + 1 > Len(pdf_files[file_index].pages)
       THEN /\ load_pc' = "ocr_return"
            /\ UNCHANGED <<documents, ocr_log>>
       ELSE \E outcome \in OcrOutcomes(page_num + 1) :
               /\ ocr_log' = Append(ocr_log, outcome)
               /\ IF outcome.kind = "error"
                  THEN /\ load_pc' = AfterPageError(page_num + 1)
                       /\ UNCHANGED documents
                  ELSE /\ documents' =
                             IF outcome.kind = "no_images" \/ InsufficientText(outcome.length)
                             THEN documents
                             ELSE Append(documents, Passage(file_index, page_num + 1,
                                                            outcome.length, "ocr"))
                       /\ UNCHANGED load_pc
    /\ UNCHANGED <<agent, chat_vars, load_collection, load_raised, args, use_ocr, recreate,
                   pdf_files, file_index, all_documents, doc_chunks, batch_start, store,
                   before, store_calls, embedded, written, failed_call>>

\* extract_text_with_ocr returns (lines 261-264) and load_pdf_directory
\* takes its passages (lines 69-70).
OcrReturn ==
    /\ load_pc = "ocr_return"
    /\ all_documents' = all_documents \o documents
    /\ file_index' = file_index + 1
    /\ load_pc' = "extract"
    /\ UNCHANGED <<agent, chat_vars, load_collection, load_raised, args, use_ocr, recreate,
                   pdf_files, page_num, documents, ocr_log, doc_chunks, batch_start, store,
                   before, store_calls, embedded, written, failed_call>>

\* load_pdf_directory at line 53 with one PDF file in the directory.
InitExtract ==
    /\ load_pc = "extract"
    /\ load_collection = get_collection_name("module1")
    /\ load_raised = "none"
    /\ ChatIdle
    /\ agent = NoAgent
    /\ args = NoArgs
    /\ use_ocr \in BOOLEAN
    /\ recreate = FALSE
    /\ \E pdf \in Pdfs : pdf_files = <<pdf>>
    /\ file_index = 1
    /\ all_documents = <<>>
    /\ page_num = 0
    /\ documents = <<>>
    /\ ocr_log = <<>>
    /\ doc_chunks = <<>>
    /\ batch_start = 0
    /\ store = [exists |-> FALSE, points |-> {}]
    /\ before = [exists |-> FALSE, points |-> {}]
    /\ store_calls = <<>>
    /\ embedded = {}
    /\ written = {}
    /\ failed_call = None

NextExtract ==
    \/ ExtractPdf
    \/ OcrPage
    \/ OcrReturn

SpecExtract == InitExtract /\ [][NextExtract]_vars

---------------------------------------------------------------------------
\* Ingestion: chunks, the collection and the batches.

\* A chunk: the metadata the splitter copies from the passage, and whether
\* its text is empty or whitespace.
Chunk(source, page, blank) == [source |-> source, page |-> page, blank |-> blank]

\* load_pdf_directory, lines 78-83.  Every passage of a directory of
\* SamplePdfs is shorter than chunk_size, and the splitter returns such a
\* text as one chunk.
split_documents(docs) ==
    [k \in DOMAIN docs |-> Chunk(docs[k].source, docs[k].page, FALSE)]

\* Lists of chunks the splitter may hand to the batch loop: runs of
\* chunks that are all blank or all text, one chunk or one batch long.
Segments == [n : {1, batch_size}, blank : BOOLEAN]
RECURSIVE Blanks(_)
Blanks(segs) ==
    IF segs = <<>> THEN <<>>
    ELSE [k \in 1..Head(segs).n |-> Head(segs).blank] \o Blanks(Tail(segs))
ChunkLists ==
    {[k \in DOMAIN Blanks(segs) |-> Chunk(1, k, Blanks(segs)[k])] :
        segs \in SeqsUpTo(Segments, MaxSegments)}

\* A filter that lets every text of the batch through.
ValidIndices_keeps_blank(cs, i) == {k \in (i + 1)..(i + batch_size) : k <= Len(cs)}
\* Lines 99-106: the positions, in the list of chunks, of the batch's valid texts.
ValidIndices(cs, i) ==
    {k \in (i + 1)..(i + batch_size) : k <= Len(cs) /\ ~cs[k].blank}

\* Line 116: embeddings.embed_documents(valid_texts), for the batch at offset i.
EmbedCall(cs, i) == [offset |-> i, texts |-> ValidIndices(cs, i)]

\* The identifier is the index within the batch alone.
PointId_no_offset(idx, i) == idx
\* Line 122: "id": idx + i.
PointId(idx, i) == idx + i

\* Lines 118-133: the points of the batch at offset i; idx counts the
\* valid texts of the batch from 0.  `run` tells the runs apart.
batch_points(cs, i, run) ==
    LET valid == ValidIndices(cs, i)
        idx(k) == Cardinality({q \in valid : q < k})
    IN {[id |-> PointId(idx(k), i), source |-> cs[k].source, page |-> cs[k].page,
         run |-> run] : k \in valid}

\* client.upsert, lines 136-139: a point replaces the point with its id.
upsert(points, new) ==
    {p \in points : p.id \notin {q.id : q \in new}} \cup new

\* What an earlier, completed run over the chunks cs left in the collection.
BatchOffsets(cs) == {i \in 0..(Len(cs) - 1) : i % batch_size = 0}
IngestedPoints(cs, run) == UNION {batch_points(cs, i, run) : i \in BatchOffsets(cs)}

\* The points written before the failure are taken back.
PointsAfterFailure_rollback(points, done) == points \ done
\* Lines 146-148: the failure is logged and raised again; nothing is undone.
PointsAfterFailure(points, done) == points

Absent == [exists |-> FALSE, points |-> {}]

\* The collection is created whether or not it exists.
ShouldCreate_always(exists, rec) == TRUE
\* qdrant.py, line 52.
ShouldCreate(exists, rec) == ~exists \/ rec

\* qdrant.py, create_collection, lines 43-62; creating a collection that
\* exists is refused by the vector store.
create_collection(st, rec) ==
    LET deletes == rec /\ st.exists
        st1 == IF deletes THEN Absent ELSE st
        creates == ShouldCreate(st1.exists, rec)
        conflict == creates /\ st1.exists
    IN [store |-> IF creates /\ ~conflict THEN [exists |-> TRUE, points |-> {}] ELSE st1,
        calls |-> (IF deletes THEN <<"delete_collection">> ELSE <<>>)
                  \o (IF creates THEN <<"create_collection">> ELSE <<>>),
        error |-> IF conflict THEN "AlreadyExists" ELSE None]

\* A collection an earlier run over MaxDocs one-page PDFs has filled.
EarlierChunks == [k \in 1..MaxDocs |-> Chunk(k, 1, FALSE)]
PriorStores == {Absent, [exists |-> TRUE, points |-> IngestedPoints(EarlierChunks, 0)]}

\* scripts/load_documents.py, main, lines 23-50, up to line 53 of
\* load_pdf_directory.  args.recreate is not handed on: recreate keeps its
\* default.
Main ==
    /\ load_pc = "idle"
    /\ \E module \in Modules, rec \in BOOLEAN, no_ocr \in BOOLEAN,
          dir \in Directories, prior \in PriorStores :
          /\ args' = [module |-> module, recreate |-> rec, no_ocr |-> no_ocr]
          /\ load_collection' = get_collection_name(module)
          /\ use_ocr' = ~no_ocr
          /\ pdf_files' = dir
          /\ store' = prior
          /\ before' = prior
    /\ recreate' = FALSE
    /\ file_index' = 1
    /\ load_pc' = "extract"
    /\ UNCHANGED <<agent, chat_vars, load_raised, all_documents, page_num, documents, ocr_log,
                   doc_chunks, batch_start, store_calls, embedded, written, failed_call>>

\* load_pdf_directory, lines 74-83, after the last PDF file.
SplitDocuments ==
    /\ load_pc = "extract"
    /\ file_index > Len(pdf_files)
    /\ doc_chunks' = split_documents(all_documents)
    /\ load_pc' = "create_collection"
    /\ UNCHANGED <<agent, chat_vars, load_collection, load_raised, args, use_ocr, recreate,
                   pdf_files, file_index, all_documents, page_num, documents, ocr_log,
                   batch_start, store, before, store_calls, embedded, written, failed_call>>

\* Lines 89-90 and qdrant.py, lines 43-62: the vector store may be out of
\* reach; an error of create_collection leaves load_pdf_directory.
CreateCollection ==
    /\ load_pc = "create_collection"
    /\ \E reachable \in BOOLEAN :
          LET result == create_collection(store, recreate)
          IN IF reachable /\ result.error = None
             THEN /\ store' = result.store
                  /\ store_calls' = result.calls
                  /\ load_pc' = "batch"
                  /\ UNCHANGED <<load_raised, failed_call>>
             ELSE /\ store_calls' = IF reachable THEN result.calls ELSE <<>>
                  /\ load_raised' = IF reachable THEN result.error ELSE "Exception"
                  /\ failed_call' = "create_collection"
                  /\ load_pc' = "raised"
                  /\ UNCHANGED store
    /\ batch_start' = 0
    /\ UNCHANGED <<agent, chat_vars, load_collection, args, use_ocr, recreate, pdf_files,
                   file_index, all_documents, page_num, documents, ocr_log, doc_chunks,
                   before, embedded, written>>

\* Lines 98-140: one iteration of the loop over the batches.
ProcessBatch ==
    /\ load_pc = "batch"
    /\ batch_start < Len(doc_chunks)
    /\ LET points == batch_points(doc_chunks, batch_start, 1)
       IN IF points = {}
          THEN /\ batch_start' = batch_start + batch_size
               /\ UNCHANGED <<load_pc, store, embedded, written, load_raised, failed_call>>
          ELSE /\ embedded' = embedded \cup {EmbedCall(doc_chunks, batch_start)}
               /\ \E outcome \in {"ok", "embed_documents", "upsert"} :
                     IF outcome = "ok"
                     THEN /\ store' = [store EXCEPT !.points = upsert(@, points)]
                          /\ written' = written \cup points
                          /\ batch_start' = batch_start + batch_size
                          /\ UNCHANGED <<load_pc, load_raised, failed_call>>
                     ELSE /\ failed_call' = outcome
                          /\ load_raised' = "Exception"
                          /\ load_pc' = "raised"
                          /\ store' = [store EXCEPT !.points = PointsAfterFailure(@, written)]
                          /\ UNCHANGED <<written, batch_start>>
    /\ UNCHANGED <<agent, chat_vars, load_collection, args, use_ocr, recreate, pdf_files,
                   file_index, all_documents, page_num, documents, ocr_log, doc_chunks,
                   before, store_calls>>

\* Lines 142-144: the loop is over and load_pdf_directory returns.
FinishLoad ==
    /\ load_pc = "batch"
    /\ batch_start >= Len(doc_chunks)
    /\ load_pc' = "loaded"
    /\ UNCHANGED <<agent, chat_vars, load_collection, load_raised, args, use_ocr, recreate,
                   pdf_files, file_index, all_documents, page_num, documents, ocr_log,
                   doc_chunks, batch_start, store, before, store_calls, embedded, written,
                   failed_call>>

\* scripts/load_documents.py, lines 52-54: the error ends the process.
ExitOnError ==
    /\ load_pc = "raised"
    /\ args # NoArgs
    /\ load_pc' = "exit"
    /\ UNCHANGED <<agent, chat_vars, load_collection, load_raised, args, use_ocr, recreate,
                   pdf_files, file_index, all_documents, page_num, documents, ocr_log,
                   doc_chunks, batch_start, store, before, store_calls, embedded, written,
                   failed_call>>

NextIngest ==
    \/ Main
    \/ ExtractPdf
    \/ OcrPage
    \/ OcrReturn
    \/ SplitDocuments
    \/ CreateCollection
    \/ ProcessBatch
    \/ FinishLoad
    \/ ExitOnError

SpecIngest == Init /\ [][NextIngest]_vars

\* The chunks of an earlier run over the same documents and one more page.
LongerRun(cs) == Append(cs, Chunk(1, Len(cs) + 1, FALSE))

\* load_pdf_directory at line 89, for every list of chunks, every value
\* of recreate, and a collection that is absent or holds what an earlier
\* run left, over the same chunks or over more.
InitLoad ==
    /\ load_pc = "create_collection"
    /\ load_collection = get_collection_name("module1")
    /\ load_raised = "none"
    /\ ChatIdle
    /\ agent = NoAgent
    /\ args = NoArgs
    /\ use_ocr = TRUE
    /\ recreate \in BOOLEAN
    /\ pdf_files = <<>>
    /\ file_index = 1
    /\ all_documents = <<>>
    /\ page_num = 0
    /\ documents = <<>>
    /\ ocr_log = <<>>
    /\ doc_chunks \in ChunkLists
    /\ batch_start = 0
    /\ store \in {Absent, [exists |-> TRUE, points |-> IngestedPoints(doc_chunks, 0)],
                  [exists |-> TRUE, points |-> IngestedPoints(LongerRun(doc_chunks), 0)]}
    /\ before = store
    /\ store_calls = <<>>
    /\ embedded = {}
    /\ written = {}
    /\ failed_call = None

NextLoad ==
    \/ CreateCollection
    \/ ProcessBatch
    \/ FinishLoad

SpecLoad == InitLoad /\ [][NextLoad]_vars

\* A run with recreate = TRUE beside chat requests for the same collection
\* (SpecRace).  create_collection is taken call by call: each call to the
\* vector store is one step, and the requests' searches fall in between.

\* The chunks of the run: one full batch and one more chunk.
RecreateChunks == [k \in 1..(batch_size + 1) |-> Chunk(1, k, FALSE)]

\* qdrant.py, line 47: recreate and client.collection_exists(collection_name).
CheckBeforeDelete ==
    /\ load_pc = "recreate_check"
    /\ load_pc' = IF recreate /\ store.exists THEN "delete_collection" ELSE "create_check"
    /\ UNCHANGED <<agent, chat_vars, load_collection, load_raised, args, use_ocr, recreate,
                   pdf_files, file_index, all_documents, page_num, documents, ocr_log,
                   doc_chunks, batch_start, store, before, store_calls, embedded, written,
                   failed_call>>

\* qdrant.py, line 49: client.delete_collection(collection_name).
DeleteCollection ==
    /\ load_pc = "delete_collection"
    /\ store' = Absent
    /\ store_calls' = Append(store_calls, "delete_collection")
    /\ load_pc' = "create_check"
    /\ UNCHANGED <<agent, chat_vars, load_collection, load_raised, args, use_ocr, recreate,
                   pdf_files, file_index, all_documents, page_num, documents, ocr_log,
                   doc_chunks, batch_start, before, embedded, written, failed_call>>

\* qdrant.py, line 52: not client.collection_exists(collection_name) or recreate.
CheckBeforeCreate ==
    /\ load_pc = "create_check"
    /\ load_pc' = IF ShouldCreate(store.exists, recreate) THEN "create" ELSE "batch"
    /\ UNCHANGED <<agent, chat_vars, load_collection, load_raised, args, use_ocr, recreate,
                   pdf_files, file_index, all_documents, page_num, documents, ocr_log,
                   doc_chunks, batch_start, store, before, store_calls, embedded, written,
                   failed_call>>

\* qdrant.py, lines 55-58: client.create_collection; the vector store
\* refuses to create a collection that exists.
CreateNewCollection ==
    /\ load_pc = "create"
    /\ store_calls' = Append(store_calls, "create_collection")
    /\ IF store.exists
       THEN /\ load_raised' = "AlreadyExists"
            /\ failed_call' = "create_collection"
            /\ load_pc' = "raised"
            /\ UNCHANGED store
       ELSE /\ store' = [exists |-> TRUE, points |-> {}]
            /\ load_pc' = "batch"
            /\ UNCHANGED <<load_raised, failed_call>>
    /\ UNCHANGED <<agent, chat_vars, load_collection, args, use_ocr, recreate, pdf_files,
                   file_index, all_documents, page_num, documents, ocr_log, doc_chunks,
                   batch_start, before, embedded, written>>

\* A search that finds no collection reports it as an empty one.
SearchOutcomes_absent_is_empty(st) == {"embed_query", "ok"}
\* rag_agent.py, lines 55-66: how retrieve_node's calls can end against
\* the collection st: embed_query may fail; client.search fails when the
\* collection does not exist.
SearchOutcomes(st) == {"embed_query"} \cup (IF st.exists THEN {"ok"} ELSE {"search"})

\* What a query can see of the collection st: points of the run carry
\* "page_content"; an empty or absent collection shows no point.
StoreViews(st) ==
    {pts \in Collections :
        /\ Len(pts) <= Cardinality(st.points)
        /\ st.points # {} => pts # <<>>
        /\ \A k \in DOMAIN pts : pts[k].has_content}

\* POST /chat for an active agent without a collection of its own: the
\* pipeline searches the collection of module1, the one being loaded.
ChatDuringLoad == ChatRequest(TRUE, TRUE, "admin", None, <<>>)

\* retrieve_node against the collection as it is at this moment.
RetrieveFromStore == RetrieveStep(SearchOutcomes(store), StoreViews(store))

InitRace ==
    /\ load_pc = "recreate_check"
    /\ load_collection = get_collection_name("module1")
    /\ load_raised = "none"
    /\ ChatIdle
    /\ agent = NoAgent
    /\ args = NoArgs
    /\ use_ocr = TRUE
    /\ recreate = TRUE
    /\ pdf_files = <<>>
    /\ file_index = 1
    /\ all_documents = <<>>
    /\ page_num = 0
    /\ documents = <<>>
    /\ ocr_log = <<>>
    /\ doc_chunks = RecreateChunks
    /\ batch_start = 0
    /\ store = [exists |-> TRUE, points |-> IngestedPoints(doc_chunks, 0)]
    /\ before = store
    /\ store_calls = <<>>
    /\ embedded = {}
    /\ written = {}
    /\ failed_call = None

NextRace ==
    \/ CheckBeforeDelete
    \/ DeleteCollection
    \/ CheckBeforeCreate
    \/ CreateNewCollection
    \/ ProcessBatch
    \/ FinishLoad
    \/ ChatDuringLoad
    \/ RetrieveFromStore
    \/ GenerateForAgent
    \/ StartStream
    \/ EmitChunk
    \/ EmitDone
    \/ ServeNext

SpecRace == InitRace /\ [][NextRace]_vars

---------------------------------------------------------------------------
\* Properties of the chat pipeline and of the response streamer (Spec).

StreamEntered == pc \in {"returned", "stream", "done"}

\* C1: every invocation of get_agent_response_stream emits zero or more
\* content events followed by exactly one done event: a done event is only
\* ever the last frame, nothing but content precedes it, no exception
\* leaves the generator, and a request in progress can always go on until
\* the done event has been sent.
C1_StreamIsContentThenOneDone ==
    /\ \A k \in DOMAIN frames :
          /\ frames[k].event \in {"content", "done"}
          /\ frames[k].event = "done" => k = Len(frames) /\ pc = "done"
    /\ pc \in {"retrieve", "generate", "returned", "stream"} =>
          raised = "none" /\ ENABLED Next
    /\ pc = "done" =>
          /\ raised = "none"
          /\ frames # <<>>
          /\ frames[Len(frames)].event = "done"

\* Retrieval failed, the answer has two segments: two content events, then done.
C1_Witness ==
    /\ pc = "done"
    /\ retrieve_outcome \in RetrieveFailures
    /\ Len(frames) = 3
    /\ frames[1].event = "content"
    /\ frames[2].event = "content"
    /\ frames[3].event = "done"

\* C3: when the Generation Service call fails inside get_agent_response,
\* nothing is raised and the dict returned holds the fixed apology text and
\* an empty references list, whatever the retrieve step had produced.
C3_GenerationFailureGivesApology ==
    gen_failed =>
       /\ pc \in {"returned", "stream", "done"}
       /\ raised = "none"
       /\ response.answer = Apology
       /\ response.references = <<>>

\* The retrieve step had produced references and the generation call failed.
C3_Witness ==
    /\ pc = "returned"
    /\ gen_failed
    /\ References(search_result) # <<>>
    /\ response.answer = Apology
    /\ response.references = <<>>

\* C4: a failure of init_vector_store, embed_query or search inside
\* retrieve_node is caught there: the node returns to the graph with the
\* context holding only the error marker and no references, and nothing is
\* raised to the caller of the pipeline.
C4_RetrievalFailureIsAbsorbed ==
    retrieve_outcome \in RetrieveFailures =>
       /\ raised = "none"
       /\ pc \in {"generate", "returned", "stream", "done"}
       /\ pc = "generate" =>
             /\ state.context = <<ErrorMarker>>
             /\ state.references = <<>>
       /\ pc = "returned" => gen_request.context = ErrorMarker

C4_Witness ==
    /\ pc = "generate"
    /\ retrieve_outcome = "embed_query"
    /\ state.context = <<ErrorMarker>>
    /\ state.references = <<>>

\* C5: the graph runs retrieve, then generate, then ends: generate runs
\* exactly once and only after retrieve has returned, also when retrieval
\* ended with the no-match or the error marker; no run skips generate or
\* runs retrieve again.
C5_RetrieveThenGenerateOnce ==
    /\ pc \in {"idle", "rejected", "retrieve"} => executed = <<>>
    /\ pc = "generate" => executed = <<"retrieve">>
    /\ StreamEntered => executed = <<"retrieve", "generate">>

\* Generate has run after a retrieval that failed.
C5_Witness ==
    /\ pc = "returned"
    /\ retrieve_outcome = "search"
    /\ gen_request.context = ErrorMarker
    /\ executed = <<"retrieve", "generate">>

NoMatch == retrieve_outcome = "ok" /\ search_result = <<>>

\* C6: when the search succeeds with zero hits over the threshold,
\* retrieve_node yields the single no-match marker passage and no
\* references, the marker is the context handed to the Generation Service,
\* and get_agent_response raises nothing: when the generation call returns,
\* the caller receives the generated answer.
C6_NoMatchDegradesToMarker ==
    /\ pc = "generate" /\ NoMatch =>
          /\ state.context = <<NoMatchMarker>>
          /\ state.references = <<>>
    /\ pc = "returned" /\ NoMatch =>
          /\ gen_request.context = NoMatchMarker
          /\ raised = "none"
          /\ response.references = <<>>
          /\ ~gen_failed => response.answer \in Answers

C6_Witness ==
    /\ pc = "returned"
    /\ NoMatch
    /\ ~gen_failed
    /\ gen_request.context = NoMatchMarker
    /\ response.answer = <<"w", ".">>

Markers == {NoMatchMarker, NoContentMarker, ErrorMarker}

OverThreshold(passage) ==
    \E id \in DOMAIN searched :
       /\ searched[id].has_content
       /\ PageContent(id) = passage
       /\ searched[id].score >= ScoreThreshold

\* C7: every passage retrieve_node places in the context, and every
\* reference it derives, comes from a point of the collection whose
\* similarity score is at least 0.70.
C7_ContextOverThreshold ==
    pc = "generate" =>
       /\ \A k \in DOMAIN state.context :
             state.context[k] \in Markers \/ OverThreshold(state.context[k])
       /\ \A k \in DOMAIN state.references :
             /\ state.references[k].point \in DOMAIN searched
             /\ searched[state.references[k].point].score >= ScoreThreshold
       /\ \A k \in DOMAIN search_result : search_result[k].score >= ScoreThreshold

\* One point is below the threshold and left out, the other is used.
C7_Witness ==
    /\ pc = "generate"
    /\ Len(searched) = 2
    /\ searched[1].score < ScoreThreshold
    /\ searched[1].has_content
    /\ searched[2].score = ScoreThreshold
    /\ state.context = <<PageContent(2)>>
    /\ Len(state.references) = 1

\* C8: in test_agent_configuration a failure of the Generation Service call
\* is reported as success = false with an error string.
C8_TestReportsGenerationFailure ==
    entry = "test" /\ pc = "done" /\ gen_failed =>
       /\ test_response.success = FALSE
       /\ test_response.error # None

---------------------------------------------------------------------------
\* Properties of the answer evaluator (SpecAnalysis).

AnalysisReturned == pc \in {"analysis_returned", "analysis_score", "analysis_done", "done"}

\* C2: every streamed answer analysis ends with a done event: whichever of
\* the vector-store initialisation, the top-3 similarity search or the
\* generation call fails, nothing is raised out of get_streaming_analysis
\* and the frames end with exactly one done event.
C2_AnalysisStreamEndsWithDone ==
    entry = "analysis" /\ pc \in {"done", "failed"} =>
       /\ raised = "none"
       /\ frames # <<>>
       /\ frames[Len(frames)].event = "done"

\* C9: the score get_answer_analysis returns is an integer from 0 to 100
\* for every generated analysis text; the text "score: 150" yields 100 and
\* the text "score: -20" yields 0.
C9_ScoreWithinRange ==
    AnalysisReturned =>
       /\ response.score \in 0..100
       /\ response.analysis = Score150Text => response.score = 100
       /\ response.analysis = ScoreMinus20Text => response.score = 0

C9_Witness ==
    /\ pc = "analysis_returned"
    /\ response.analysis = Score150Text
    /\ response.score = 100

\* The places where the word "score", in any case, is followed by digits,
\* with nothing but colons and whitespace in between.
ScoreMentions(t) ==
    {i \in DOMAIN t :
        /\ t[i] \in {"score", "Score", "SCORE"}
        /\ \E j \in (i + 1)..Len(t) :
              /\ t[j] \in Digits
              /\ \A k \in (i + 1)..(j - 1) : t[k] \in {":", " ", "\n"}}

\* The number written after the mention at i: its digits, read in base ten.
NumberAfter(t, i) ==
    LET from == CHOOSE j \in (i + 1)..Len(t) :
                   /\ t[j] \in Digits
                   /\ \A k \in (i + 1)..(j - 1) : t[k] \notin Digits
        to == CHOOSE e \in from..Len(t) :
                   /\ \A k \in from..e : t[k] \in Digits
                   /\ e = Len(t) \/ t[e + 1] \notin Digits
    IN ParseInt(t, from, to - from + 1)

FirstMention(t) == CHOOSE i \in ScoreMentions(t) : \A j \in ScoreMentions(t) : i <= j

\* C10: the score is the number of the first mention of "score" followed by
\* digits, whatever comes later in the text, brought into 0..100; it is 0
\* when the text has no such mention or when the generation call failed,
\* and nothing is raised in either case.
C10_ScoreIsFirstMention ==
    AnalysisReturned =>
       /\ raised = "none"
       /\ response.score =
             IF gen_failed \/ ScoreMentions(response.analysis) = {} THEN 0
             ELSE LET n == NumberAfter(response.analysis, FirstMention(response.analysis))
                  IN IF n > 100 THEN 100 ELSE n

\* Two mentions with different numbers: the first decides.
C10_Witness ==
    /\ pc = "analysis_returned"
    /\ response.analysis = <<"Score", "1", "score", "5">>
    /\ response.score = 1

\* C11: the analysis stream is one content event carrying the analysis
\* text, then exactly one score event with the score get_answer_analysis
\* returned (0..100), then exactly one done event, and nothing after it,
\* for every invocation of get_streaming_analysis.
C11_AnalysisStreamIsContentScoreDone ==
    entry = "analysis" /\ pc \in {"done", "failed"} =>
       /\ Len(frames) = 3
       /\ frames[1] = ContentFrame(response.analysis)
       /\ frames[2] = ScoreFrame(response.score)
       /\ response.score \in 0..100
       /\ frames[3] = DoneFrame

\* Positions of an answer that belong to a separator: whitespace that
\* follows '.', '!' or '?' with nothing but whitespace in between, and a
\* newline right before a run of '#' that whitespace follows.
AfterSentence(t, i) ==
    /\ t[i] \in {" ", "\n"}
    /\ \E j \in 1..(i - 1) :
          /\ t[j] \in {".", "!", "?"}
          /\ \A k \in (j + 1)..i : t[k] \in {" ", "\n"}
BeforeHeading(t, i) ==
    /\ t[i] = "\n"
    /\ \E j \in (i + 1)..(Len(t) - 1) :
          /\ \A k \in (i + 1)..j : t[k] = "#"
          /\ t[j + 1] \in {" ", "\n"}
Separators(t) == {i \in DOMAIN t : AfterSentence(t, i) \/ BeforeHeading(t, i)}

\* The segments between the separators that hold more than whitespace,
\* from left to right.
SegmentStarts(t, seps) ==
    {i \in DOMAIN t \ seps : i = 1 \/ i - 1 \in seps}
SegmentEnd(t, seps, i) ==
    CHOOSE j \in i..Len(t) :
       /\ \A k \in i..j : k \notin seps
       /\ j = Len(t) \/ j + 1 \in seps
HasText(t, i, j) == \E k \in i..j : t[k] \notin {" ", "\n"}
InOrder(S) ==
    CHOOSE f \in [1..Cardinality(S) -> S] :
        \A a, b \in 1..Cardinality(S) : a < b => f[a] < f[b]
ExpectedPayloads(t) ==
    LET seps == Separators(t)
        starts == {i \in SegmentStarts(t, seps) : HasText(t, i, SegmentEnd(t, seps, i))}
        order == InOrder(starts)
    IN [k \in 1..Cardinality(starts) |->
           SubSeq(t, order[k], SegmentEnd(t, seps, order[k])) \o <<" ">>]
ContentPayloads ==
    LET sent == SelectSeq(frames, LAMBDA f : f.event = "content")
    IN [k \in DOMAIN sent |-> sent[k].content]

\* C24: the content events of get_agent_response_stream carry, in order,
\* the non-blank segments of the answer between the separators, each
\* followed by one space; the answer "Paris is the capital. # Next\nMore
\* text." gives two content events and then the done event.
C24_ContentEventsAreSegments ==
    /\ pc = "stream" =>
          LET expected == ExpectedPayloads(response.answer)
          IN /\ Len(ContentPayloads) <= Len(expected)
             /\ ContentPayloads = SubSeq(expected, 1, Len(ContentPayloads))
    /\ pc = "done" =>
          /\ ContentPayloads = ExpectedPayloads(response.answer)
          /\ response.answer = ParisAnswer =>
                /\ Len(frames) = 3
                /\ frames[1] = ContentFrame(<<"w", ".", " ">>)
                /\ frames[2] = ContentFrame(<<"#", " ", "w", "\n", "w", ".", " ">>)
                /\ frames[3] = DoneFrame
\* The Paris answer has been streamed.
C24_Witness ==
    /\ pc = "done"
    /\ response.answer = ParisAnswer
    /\ Len(frames) = 3
\* An answer with a heading after a newline and a blank first segment.
C24_WitnessHeading ==
    /\ pc = "done"
    /\ response.answer = <<"\n", "#", " ">>
    /\ Len(frames) = 2

\* The messages a request to the language model carries: the chain of
\* generate_response is invoked with {"context", "question"} only.
Conversation(request) == <<request.question>>

\* C21: the request handed to the language model holds every history item,
\* unmodified and oldest first, followed by the current question.
C21_HistoryReachesGeneration ==
    [][pc = "generate" /\ gen_request' # gen_request =>
          Conversation(gen_request') = state.messages]_vars

---------------------------------------------------------------------------
\* Text extraction of one PDF file (SpecExtract).

pdf == pdf_files[1]
total_pages == Len(pdf.pages)

\* The file has been through lines 57-72, or OCR is at work on it.
Decided == file_index > 1 \/ load_pc \in {"ocr", "ocr_return"}
StandardAccepted ==
    \E k \in DOMAIN all_documents : all_documents[k].extraction_method = "standard"
OcrTaken == load_pc \in {"ocr", "ocr_return"} \/ ocr_log # <<>>

\* At least 25% of the file's pages have more than 100 characters.
QuarterOfPagesHaveText ==
    Cardinality({p \in DOMAIN pdf.pages : pdf.pages[p] > SufficientChars}) * 100
        >= total_pages * SufficientPercent

\* C13: the standard extraction of a PDF with n pages is accepted exactly
\* when at least 25% of the n pages have more than 100 characters each;
\* otherwise, with OCR enabled, the PDF is OCR-processed instead.
C13_AcceptedIffQuarterOfPages ==
    pdf_files # <<>> /\ pdf.readable /\ total_pages >= 1 /\ Decided =>
       /\ StandardAccepted <=> QuarterOfPagesHaveText
       /\ use_ocr => (OcrTaken <=> ~QuarterOfPagesHaveText)

ErrorPages == {p \in DOMAIN ocr_log : ocr_log[p].kind = "error"}
TextPages == {p \in DOMAIN ocr_log : ocr_log[p].kind = "text" /\ ocr_log[p].length >= MinPageChars}

\* C15: a page whose rendering or recognition fails is skipped: the loop
\* goes on with the next page and every passage of the pages before stays,
\* unless the page lies above the safety limit: then the loop stops and
\* the passages so far are returned.
C15_OcrPageFailureIsSkipped ==
    load_pc \in {"ocr", "ocr_return"} /\ pdf_files # <<>> /\ pdf.readable =>
       /\ \A p \in ErrorPages : p <= OcrSafetyLimit => load_pc = "ocr" \/ page_num > p
       /\ \A p \in ErrorPages : p > OcrSafetyLimit => load_pc = "ocr_return" /\ page_num = p
       /\ load_pc = "ocr_return" /\ page_num <= total_pages => page_num \in ErrorPages
       /\ {documents[k].page : k \in DOMAIN documents} = TextPages
       /\ Len(documents) = Cardinality(TextPages)
C15_Witness ==
    /\ load_pc = "ocr_return"
    /\ page_num = total_pages + 1
    /\ \E p \in ErrorPages : \E k \in DOMAIN documents : documents[k].page > p
\* The loop has stopped above the safety limit with passages in hand.
C15_WitnessLimit ==
    /\ load_pc = "ocr_return"
    /\ page_num <= total_pages
    /\ documents # <<>>

\* C16: extract_text_with_ocr never renders or recognises a page with a
\* number above 100, and its page loop ends.
C16_OcrStaysBelowLimit ==
    /\ \A p \in DOMAIN ocr_log : p <= OcrSafetyLimit
    /\ load_pc = "ocr" => page_num <= total_pages

\* Pages of the log that gave text of n characters.
PagesOfLength(n) == {p \in DOMAIN ocr_log : ocr_log[p] = PageText(n)}
OcrPassages == {k \in DOMAIN documents : documents[k].extraction_method = "ocr"}

\* C27 as stated: every passage of extract_text_with_ocr has more than 100
\* characters of text.
C27_OcrPassagesExceedHundred ==
    \A k \in OcrPassages : documents[k].length > SufficientChars

\* C27, amended: every passage of extract_text_with_ocr has at least 50
\* characters of text: a page whose recognised text has fewer than 50
\* characters is never added, and a page with 50 characters is.
C27_OcrPassagesHaveFiftyChars ==
    /\ \A k \in OcrPassages : documents[k].length >= MinPageChars
    /\ \A p \in PagesOfLength(MinPageChars - 1) :
          \A k \in OcrPassages : documents[k].page # p
    /\ \A p \in PagesOfLength(MinPageChars) :
          \E k \in OcrPassages : documents[k].page = p /\ documents[k].length = MinPageChars
C27_Witness ==
    /\ load_pc = "ocr_return"
    /\ \E k \in OcrPassages : documents[k].length = MinPageChars
    /\ \E k \in OcrPassages : documents[k].length > SufficientChars

---------------------------------------------------------------------------
\* The batch loop and the collection (SpecLoad).

BatchRun == load_pc \in {"batch", "loaded", "raised"}
PointIds(points) == {p.id : p \in points}
EarlierBatches == {i \in BatchOffsets(doc_chunks) : i < batch_start}

\* C12: when embed_documents or upsert fails for a batch, the run ends
\* with the error raised: no later batch is embedded or upserted, and the
\* points of the batches before it stay in the collection.
C12_BatchFailureAborts ==
    load_pc = "raised" /\ failed_call \in {"embed_documents", "upsert"} =>
       /\ load_raised = "Exception"
       /\ ~ENABLED ProcessBatch
       /\ \A call \in embedded : call.offset <= batch_start
       /\ written = UNION {batch_points(doc_chunks, i, 1) : i \in EarlierBatches}
       /\ written \subseteq store.points
C12_Witness ==
    /\ load_pc = "raised"
    /\ failed_call = "upsert"
    /\ written # {}
    /\ batch_start + batch_size < Len(doc_chunks)

\* The chunks of the batch at offset i, and whether all of them are blank.
BatchOf(i) == {k \in (i + 1)..(i + batch_size) : k <= Len(doc_chunks)}
AllBlank(i) == \A k \in BatchOf(i) : doc_chunks[k].blank

\* C22: every call of embed_documents gets between 1 and 100 texts, none
\* of them blank, and no point of a blank chunk is upserted; a batch whose
\* chunks are all blank gives no call and no point, and does not fail the
\* run, which goes on with the next batch.
C22_EmbeddingGetsValidTexts ==
    BatchRun =>
       /\ \A call \in embedded :
             /\ Cardinality(call.texts) \in 1..batch_size
             /\ call.texts \subseteq BatchOf(call.offset)
             /\ \A k \in call.texts : ~doc_chunks[k].blank
       /\ \A p \in written : ~doc_chunks[p.page].blank
       /\ \A i \in BatchOffsets(doc_chunks) :
             AllBlank(i) =>
                /\ \A call \in embedded : call.offset # i
                /\ \A p \in written : p.page \notin BatchOf(i)
                /\ load_pc = "raised" /\ failed_call # "create_collection" => batch_start # i
                /\ load_pc = "batch" /\ batch_start = i => ENABLED ProcessBatch
\* A batch of blank chunks was passed over and the batch after it written;
\* another witness has a batch with blank and non-blank chunks.
C22_Witness ==
    /\ load_pc = "loaded"
    /\ \E i \in BatchOffsets(doc_chunks) :
          /\ AllBlank(i)
          /\ \E call \in embedded : call.offset > i
          /\ \E p \in written : p.page > i + batch_size
C22_WitnessMixed ==
    /\ load_pc = "loaded"
    /\ \E call \in embedded :
          /\ Cardinality(call.texts) \in 2..(batch_size - 1)
          /\ \E k \in BatchOf(call.offset) : doc_chunks[k].blank

\* C17: no two points a run upserts have the same identifier, whatever
\* the number of chunks and wherever the blank ones are; no point is
\* replaced by a later batch of the run.
C17_PointIdsAreUnique ==
    BatchRun =>
       /\ Cardinality(PointIds(written)) = Cardinality(written)
       /\ written \subseteq store.points
C17_Witness ==
    /\ load_pc = "loaded"
    /\ \E p \in written : p.id >= batch_size
    /\ \E p \in written : p.id < batch_size
    /\ \E k \in DOMAIN doc_chunks : doc_chunks[k].blank

\* C18: a run with recreate = FALSE over a collection that an earlier run
\* over the same documents has filled gets no "already exists" error:
\* create_collection neither deletes nor creates, and the collection
\* keeps its set of point identifiers.
C18_RerunKeepsCollection ==
    BatchRun /\ before.exists /\ ~recreate =>
       /\ store_calls = <<>>
       /\ load_raised # "AlreadyExists"
       /\ PointIds(store.points) = PointIds(before.points)
C18_Witness ==
    /\ load_pc = "loaded"
    /\ before.exists
    /\ ~recreate
    /\ written # {}
    /\ \A p \in store.points : p.run = 1

\* C29: when load_pdf_directory has returned, the collection holds exactly
\* the points of this run, one for each non-blank chunk, and no point of
\* an earlier run, whether recreate is TRUE or FALSE.
C29_CollectionHoldsLastRun ==
    load_pc = "loaded" => store.points = IngestedPoints(doc_chunks, 1)

---------------------------------------------------------------------------
\* A whole run from the command line (SpecIngest).

RegularDocuments(j) == extract_text_with_pypdf(pdf_files[j], j)
StandardUsable(j) == RegularDocuments(j) # <<>> /\ has_sufficient_text(RegularDocuments(j))
\* The file cannot be read, or its text is insufficient and OCR is off.
Unusable(j) == ~pdf_files[j].readable \/ (~StandardUsable(j) /\ ~use_ocr)
Upserted(d) ==
    \E p \in store.points : p.source = d.source /\ p.page = d.page /\ p.run = 1

\* C14: a PDF that yields no usable passage contributes no passage and
\* does not end the run: the passages of every other PDF are extracted,
\* and their chunks are embedded and upserted.
C14_UnusablePdfIsSkipped ==
    /\ load_pc \in {"extract", "ocr", "ocr_return"} => load_raised = "none"
    /\ load_pc \in {"raised", "exit"} => failed_call # None
    /\ \A j \in DOMAIN pdf_files :
          /\ Unusable(j) =>
                /\ \A k \in DOMAIN all_documents : all_documents[k].source # j
                /\ \A p \in written : p.source # j
          /\ StandardUsable(j) /\ file_index > j =>
                \A k \in DOMAIN RegularDocuments(j) :
                   \E m \in DOMAIN all_documents : all_documents[m] = RegularDocuments(j)[k]
    /\ load_pc = "loaded" => \A k \in DOMAIN all_documents : Upserted(all_documents[k])
C14_Witness ==
    /\ load_pc = "loaded"
    /\ \E j \in DOMAIN pdf_files : ~pdf_files[j].readable /\ j < Len(pdf_files)
    /\ \E p \in store.points : p.run = 1

\* C19: a run started from the command line with --recreate over a
\* collection that exists deletes it and creates it anew before the first
\* upsert, so that no point of an earlier run is left.
C19_CliRecreateDropsCollection ==
    args # NoArgs /\ load_pc \in {"batch", "loaded"} =>
       (args.recreate /\ before.exists =>
           /\ store_calls = <<"delete_collection", "create_collection">>
           /\ \A p \in store.points : p.run = 1)

---------------------------------------------------------------------------
\* A recreating run beside chat requests (SpecRace).

ChatInProgress == pc \in {"retrieve", "generate", "returned", "stream"}
RealPassages ==
    /\ state.context # <<>>
    /\ \A k \in DOMAIN state.context : OverThreshold(state.context[k])
DoneFrames == {k \in DOMAIN frames : frames[k].event = "done"}

\* In every state of the race the request has raised nothing and can go
\* on; after retrieval the context is real passages, the no-match marker
\* or the error marker; a finished stream ends with its only done event.
RaceState ==
    /\ raised = "none"
    /\ ChatInProgress =>
          ENABLED (RetrieveFromStore \/ GenerateForAgent \/ StartStream \/ EmitChunk \/ EmitDone)
    /\ pc = "generate" =>
          \/ state.context = <<ErrorMarker>>
          \/ state.context = <<NoMatchMarker>>
          \/ RealPassages
    /\ pc = "done" => DoneFrames = {Len(frames)}

\* What retrieve_node returns for the collection it finds: the error
\* marker for an absent collection, the no-match marker for an empty one,
\* and never more points than the collection holds.
RaceRetrieval ==
    pc = "retrieve" /\ pc' = "generate" =>
       /\ ~store.exists => state'.context = <<ErrorMarker>>
       /\ store.exists /\ store.points = {} /\ retrieve_outcome' = "ok" =>
             state'.context = <<NoMatchMarker>>
       /\ retrieve_outcome' = "ok" =>
             store.exists /\ Len(searched') <= Cardinality(store.points)

\* C28: however the calls of a run with recreate = TRUE (existence check,
\* delete, create, upserts) interleave with a chat request that searches
\* the same collection, the request raises nothing: it sees the
\* collection absent, empty, partly or fully loaded, retrieval ends with
\* passages, the no-match marker or the error marker, and the stream ends
\* with one done event.
C28_RetrievalSurvivesRecreate ==
    []RaceState /\ [][RaceRetrieval]_vars
\* The search met the deleted collection and the stream still ended.
C28_Witness ==
    /\ pc = "done"
    /\ retrieve_outcome = "search"
    /\ DoneFrames = {Len(frames)}
    /\ store_calls # <<>>
\* The search met the new, still empty collection.
C28_WitnessEmpty ==
    /\ pc = "generate"
    /\ collection_name = load_collection
    /\ retrieve_outcome = "ok"
    /\ searched = <<>>
    /\ state.context = <<NoMatchMarker>>
\* The search met the collection with its first batch only.
C28_WitnessPartial ==
    /\ pc = "generate"
    /\ load_pc = "batch"
    /\ batch_start = batch_size
    /\ Cardinality(store.points) = batch_size
    /\ RealPassages

---------------------------------------------------------------------------
\* Agents and the requests that name them (SpecAgents).

ChatServed == entry = "chat" /\ pc \in {"retrieve", "generate", "returned", "stream", "done"}

\* C25: a chat request of an administrator is served only for an active
\* agent: once the agent is deactivated, the requests for it are rejected
\* until it is activated again.
C25_ChatOnlyWithActiveAgent ==
    ChatServed => agent.exists /\ agent.is_active

\* C26: for an existing agent that is not active, test_agent_configuration
\* does not fail with "Agent not found": it runs the pipeline and returns
\* success = TRUE when the pipeline completes.
C26_TestReachesInactiveAgent ==
    entry = "test" /\ agent.exists /\ ~agent.is_active =>
       /\ pc # "rejected"
       /\ test_response.error # "404: Agent not found"
       /\ pc = "done" => test_response.success

\* C30: a chat with the agent that create_default_agents made for the
\* collection "<X>_docs" searches the collection "<X>_docs".
C30_DefaultAgentSearchesItsCollection ==
    entry = "chat" /\ pc \in {"generate", "returned"} =>
       \A collection \in get_collections(VectorCollections) :
          agent.id = AgentId(collection.id) => collection_name = collection.collection

---------------------------------------------------------------------------
\* The legacy entry point and the ingestion command line agree on the
\* collection (Spec).

\* scripts/load_documents.py: the collection --module m is loaded into.
CliCollectionName(module) == get_collection_name(module)

\* C20: a legacy chat request for module m searches the collection
\* "<m>_docs", the one the ingestion command line writes for --module m.
C20_LegacySearchesModuleCollection ==
    entry = "legacy" /\ pc \in {"generate", "returned"} =>
       collection_name = CliCollectionName(agent_config.module)

====
